---- MODULE Spec2Model ----
(***************************************************************************)
(* Model of the bundle parsing and derivation logic of the catalog         *)
(* browser (src/app.py): the view path resolver, the file classifier, the  *)
(* field extractor, the join graph builder and the field collector.        *)
(*                                                                         *)
(* Strings are sequences of one-character strings, so that formatting is   *)
(* concatenation and endswith / substring / lower are computed on          *)
(* characters.  A decoded YAML value is a record [kind, str, entries]:     *)
(* kind "none" (Python None), "str", "seq" (a list) or "map" (a dict,      *)
(* entries = the sequence of its [key, val] items in insertion order).     *)
(***************************************************************************)
EXTENDS Integers, Sequences, FiniteSets, TLC

VARIABLES
    pc,                 \* position of the running component
    table_name,         \* get_view_file_paths: argument
    view_data,          \* get_view_file_paths / get_fields_from_view: argument
    paths,              \* get_view_file_paths: returned list
    view_file,          \* next((v for v in paths if v in all_files), None)
    all_files,          \* the bundle: file key -> raw content
    file_names,         \* file categorization: list(yaml_data["files"].keys())
    topics,             \* file categorization results
    views,
    model_file,
    relationship_file,
    source_table,       \* get_fields_from_view: argument
    fields,             \* get_fields_from_view: returned list
    yaml_data,          \* create_join_graph / collect_all_fields: the topic
    base_table,         \* create_join_graph / collect_all_fields: argument
    nodes,              \* create_join_graph: dot.node statements, in order
    edges,              \* create_join_graph: dot.edge statements, in order
    stack,              \* call stack of add_joins / process_joins
    all_fields,         \* collect_all_fields: the accumulated list
    visit               \* collect_all_fields: locals of the last table processed

vars == <<pc, table_name, view_data, paths, view_file, all_files, file_names,
          topics, views, model_file, relationship_file, source_table, fields,
          yaml_data, base_table, nodes, edges, stack, all_fields, visit>>

-----------------------------------------------------------------------------
(* Strings *)

S_PUBLIC == <<"P", "U", "B", "L", "I", "C">>
S_SALES == <<"S", "A", "L", "E", "S">>
S_slash == <<"/">>
S_view == <<".", "v", "i", "e", "w">>
S_query_view == <<".", "q", "u", "e", "r", "y", ".", "v", "i", "e", "w">>
S_topic == <<".", "t", "o", "p", "i", "c">>
S_model == <<"m", "o", "d", "e", "l">>
S_relationship == <<"r", "e", "l", "a", "t", "i", "o", "n", "s", "h", "i", "p">>
S_orders == <<"o", "r", "d", "e", "r", "s">>
S_customers == <<"c", "u", "s", "t", "o", "m", "e", "r", "s">>
S_addresses == <<"a", "d", "d", "r", "e", "s", "s", "e", "s">>
S_empty == <<>>

K_query == <<"q", "u", "e", "r", "y">>
K_schema == <<"s", "c", "h", "e", "m", "a">>
K_dimensions == <<"d", "i", "m", "e", "n", "s", "i", "o", "n", "s">>
K_measures == <<"m", "e", "a", "s", "u", "r", "e", "s">>
K_sql == <<"s", "q", "l">>
K_aggregate_type ==
    <<"a", "g", "g", "r", "e", "g", "a", "t", "e", "_", "t", "y", "p", "e">>
K_description == <<"d", "e", "s", "c", "r", "i", "p", "t", "i", "o", "n">>
K_joins == <<"j", "o", "i", "n", "s">>

\* str.endswith
EndsWith(s, suffix) ==
    /\ Len(s) >= Len(suffix)
    /\ SubSeq(s, Len(s) - Len(suffix) + 1, Len(s)) = suffix

\* the `in` operator on two strings
Contains(s, sub) ==
    \E i \in 0..(Len(s) - Len(sub)) : SubSeq(s, i + 1, i + Len(sub)) = sub

LowerChar(c) ==
    CASE c = "A" -> "a" [] c = "B" -> "b" [] c = "C" -> "c" [] c = "D" -> "d"
      [] c = "E" -> "e" [] c = "F" -> "f" [] c = "G" -> "g" [] c = "H" -> "h"
      [] c = "I" -> "i" [] c = "J" -> "j" [] c = "K" -> "k" [] c = "L" -> "l"
      [] c = "M" -> "m" [] c = "N" -> "n" [] c = "O" -> "o" [] c = "P" -> "p"
      [] c = "Q" -> "q" [] c = "R" -> "r" [] c = "S" -> "s" [] c = "T" -> "t"
      [] c = "U" -> "u" [] c = "V" -> "v" [] c = "W" -> "w" [] c = "X" -> "x"
      [] c = "Y" -> "y" [] c = "Z" -> "z" [] OTHER -> c

\* str.lower
Lower(s) == [i \in 1..Len(s) |-> LowerChar(s[i])]

-----------------------------------------------------------------------------
(* Decoded YAML values *)

YNone == [kind |-> "none", str |-> <<>>, entries |-> <<>>]
YStr(s) == [kind |-> "str", str |-> s, entries |-> <<>>]
YSeq == [kind |-> "seq", str |-> <<>>, entries |-> <<>>]
YMap(es) == [kind |-> "map", str |-> <<>>, entries |-> es]
Item(k, v) == [key |-> k, val |-> v]

\* isinstance(v, dict)
IsDict(v) == v.kind = "map"

\* `k in d` for a dict d
HasKey(d, k) == \E i \in 1..Len(d.entries) : d.entries[i].key = k

\* d[k] for a key that is present
Lookup(d, k) ==
    d.entries[CHOOSE i \in 1..Len(d.entries) : d.entries[i].key = k].val

\* d.get(k, '')
GetOr(d, k) == IF HasKey(d, k) THEN Lookup(d, k) ELSE YStr(S_empty)

\* Python truth value of a decoded value
Truthy(v) ==
    CASE v.kind = "none" -> FALSE
      [] v.kind = "str" -> v.str # <<>>
      [] v.kind = "map" -> v.entries # <<>>
      [] OTHER -> TRUE

\* str(v) inside an f-string, for the values a schema key holds in the model
Format(v) == IF v.kind = "str" THEN v.str ELSE <<"N", "o", "n", "e">>

\* next((v for v in candidates if v in keys), None); None is <<>>
FirstIn(candidates, keys) ==
    IF \E i \in 1..Len(candidates) : candidates[i] \in keys
    THEN candidates[CHOOSE i \in 1..Len(candidates) :
                        /\ candidates[i] \in keys
                        /\ \A j \in 1..(i - 1) : candidates[j] \notin keys]
    ELSE <<>>

-----------------------------------------------------------------------------
(* View Path Resolver *)

\* get_view_file_paths with the unqualified key tried before the PUBLIC one
get_view_file_paths_unqualified_first(t, vd) ==
    LET is_query == Truthy(vd) /\ HasKey(vd, K_query)
        view_suffix == IF is_query THEN S_query_view ELSE S_view
    IN  IF Truthy(vd) /\ HasKey(vd, K_schema)
        THEN << Format(Lookup(vd, K_schema)) \o S_slash \o t \o view_suffix,
                t \o view_suffix >>
        ELSE << t \o view_suffix, S_PUBLIC \o S_slash \o t \o view_suffix >>
             \o (IF ~Truthy(vd)
                 THEN << t \o S_query_view,
                         S_PUBLIC \o S_slash \o t \o S_query_view >>
                 ELSE <<>>)

get_view_file_paths(t, vd) ==
    LET is_query == Truthy(vd) /\ HasKey(vd, K_query)
        view_suffix == IF is_query THEN S_query_view ELSE S_view
    IN  IF Truthy(vd) /\ HasKey(vd, K_schema)
        THEN << Format(Lookup(vd, K_schema)) \o S_slash \o t \o view_suffix,
                t \o view_suffix >>
        ELSE << S_PUBLIC \o S_slash \o t \o view_suffix, t \o view_suffix >>
             \o (IF ~Truthy(vd)
                 THEN << S_PUBLIC \o S_slash \o t \o S_query_view,
                         t \o S_query_view >>
                 ELSE <<>>)

\* The candidate keys of table t that a bundle of the model may hold.
FormsOf(t) ==
    { S_PUBLIC \o S_slash \o t \o S_view, t \o S_view,
      S_PUBLIC \o S_slash \o t \o S_query_view, t \o S_query_view,
      S_SALES \o S_slash \o t \o S_view, S_SALES \o S_slash \o t \o S_query_view }

Tables == {S_orders, S_customers, S_addresses}

\* Raw file content, by what yaml.safe_load makes of it: a value, or a parse error.
Raw(v) == [ok |-> TRUE, value |-> v]
RawMalformed == [ok |-> FALSE, value |-> YNone]

\* The view mappings handed to get_view_file_paths: every combination of a
\* schema key (absent, a name, PUBLIC, the empty string), a query key (absent,
\* a string, null) and another key.
SchemaItems == { <<>>, <<Item(K_schema, YStr(S_SALES))>>,
                 <<Item(K_schema, YStr(S_PUBLIC))>>, <<Item(K_schema, YStr(S_empty))>> }
QueryItems == { <<>>, <<Item(K_query, YStr(<<"q">>))>>, <<Item(K_query, YNone)>> }
OtherItems == { <<>>, <<Item(K_dimensions, YMap(<<>>))>> }
ViewMappings == { YMap(s \o q \o o) : s \in SchemaItems, q \in QueryItems, o \in OtherItems }

IdleResolver == table_name = <<>> /\ paths = <<>> /\ view_file = <<>>
IdleClassifier ==
    /\ file_names = <<>> /\ topics = <<>> /\ views = <<>>
    /\ model_file = <<>> /\ relationship_file = <<>>
IdleExtractor == source_table = <<>> /\ fields = <<>>
NoVisit == [table |-> <<>>, pass_one |-> <<>>, pass_two |-> <<>>,
            outcome |-> "none", fields |-> <<>>]
IdleWalk ==
    /\ yaml_data = YNone /\ base_table = <<>> /\ nodes = <<>> /\ edges = <<>>
    /\ stack = <<>> /\ all_fields = <<>> /\ visit = NoVisit

InitResolver ==
    /\ pc = "resolver_call"
    /\ table_name \in Tables
    /\ view_data \in {YNone} \cup ViewMappings
    /\ \E keys \in SUBSET FormsOf(table_name) :
           all_files = [k \in keys |-> Raw(YMap(<<>>))]
    /\ paths = <<>> /\ view_file = <<>>
    /\ IdleClassifier /\ IdleExtractor /\ IdleWalk

\* paths = get_view_file_paths(table_name, view_data)
CallGetViewFilePaths ==
    /\ pc = "resolver_call"
    /\ paths' = get_view_file_paths(table_name, view_data)
    /\ pc' = "resolver_pick"
    /\ UNCHANGED <<table_name, view_data, view_file, all_files, file_names, topics,
                   views, model_file, relationship_file, source_table, fields,
                   yaml_data, base_table, nodes, edges, stack, all_fields, visit>>

\* view_file = next((v for v in paths if v in all_files), None)
PickFirstExisting ==
    /\ pc = "resolver_pick"
    /\ view_file' = FirstIn(paths, DOMAIN all_files)
    /\ pc' = "resolver_done"
    /\ UNCHANGED <<table_name, view_data, paths, all_files, file_names, topics,
                   views, model_file, relationship_file, source_table, fields,
                   yaml_data, base_table, nodes, edges, stack, all_fields, visit>>

NextResolver == CallGetViewFilePaths \/ PickFirstExisting

SpecResolver == InitResolver /\ [][NextResolver]_vars

ResolverReturned == pc \in {"resolver_pick", "resolver_done"}

\* C1: with no view data supplied, get_view_file_paths returns exactly
\* [PUBLIC/t.view, t.view, PUBLIC/t.query.view, t.query.view] (for "orders" the
\* literal list of the specification), and picking the first element that is
\* a key of the bundle yields the resolved file, None when none is present.
C1_UnknownCandidates ==
    (ResolverReturned /\ view_data = YNone) =>
        LET t == table_name
            p1 == S_PUBLIC \o S_slash \o t \o S_view
            p2 == t \o S_view
            p3 == S_PUBLIC \o S_slash \o t \o S_query_view
            p4 == t \o S_query_view
            keys == DOMAIN all_files
        IN  /\ paths = <<p1, p2, p3, p4>>
            /\ t = S_orders =>
                 paths = << <<"P","U","B","L","I","C","/","o","r","d","e","r","s",
                              ".","v","i","e","w">>,
                            <<"o","r","d","e","r","s",".","v","i","e","w">>,
                            <<"P","U","B","L","I","C","/","o","r","d","e","r","s",
                              ".","q","u","e","r","y",".","v","i","e","w">>,
                            <<"o","r","d","e","r","s",
                              ".","q","u","e","r","y",".","v","i","e","w">> >>
            /\ pc = "resolver_done" =>
                 view_file = IF p1 \in keys THEN p1
                             ELSE IF p2 \in keys THEN p2
                             ELSE IF p3 \in keys THEN p3
                             ELSE IF p4 \in keys THEN p4
                             ELSE <<>>

\* C1 witness: for "orders" with no view data, a bundle holding orders.view and
\* PUBLIC/orders.query.view but not PUBLIC/orders.view resolves to orders.view.
C1_Witness ==
    /\ pc = "resolver_done" /\ view_data = YNone /\ table_name = S_orders
    /\ S_PUBLIC \o S_slash \o S_orders \o S_view \notin DOMAIN all_files
    /\ S_PUBLIC \o S_slash \o S_orders \o S_query_view \in DOMAIN all_files
    /\ view_file = S_orders \o S_view

\* C10: for every decoded view mapping supplied as view data, the empty mapping
\* included, the candidate list has exactly two entries sharing one suffix,
\* .query.view iff the mapping has a query key: [{schema}/t{suffix}, t{suffix}]
\* with a schema key and [PUBLIC/t{suffix}, t{suffix}] without.
C10_KnownCandidates ==
    (ResolverReturned /\ IsDict(view_data)) =>
        LET suffix == IF HasKey(view_data, K_query) THEN S_query_view ELSE S_view
            prefix == IF HasKey(view_data, K_schema)
                      THEN Format(Lookup(view_data, K_schema)) ELSE S_PUBLIC
        IN  paths = << prefix \o S_slash \o table_name \o suffix,
                       table_name \o suffix >>

-----------------------------------------------------------------------------
(* File Classifier *)

MaxKeys == 3

\* The file keys a bundle of the classifier runs may hold.
KeyPool ==
    { S_model,
      <<"M", "o", "d", "e", "l">>,
      S_orders \o S_topic,
      S_orders \o S_view,
      S_orders \o S_query_view,
      S_relationship \o <<"s">>,
      <<"R", "E", "L", "A", "T", "I", "O", "N", "S", "H", "I", "P">> \o S_topic,
      <<"p", "r", "e", "v", "i", "e", "w">>,
      S_orders \o S_topic \o <<"s">> }

\* Lists of at most n distinct elements of S (the keys of a dict, in order).
DistinctSeqs(S, n) ==
    UNION { { q \in [1..k -> S] : \A i, j \in 1..k : i # j => q[i] # q[j] } : k \in 0..n }

\* [f for f in file_names if f.endswith('.topic')]
TopicsOf(names) == SelectSeq(names, LAMBDA f : EndsWith(f, S_topic))

\* [f for f in file_names if f.endswith('.view')]
ViewsOf(names) == SelectSeq(names, LAMBDA f : EndsWith(f, S_view))

\* next((f for f in file_names if f == "model"), None)
ModelFileOf(names) ==
    LET hits == SelectSeq(names, LAMBDA f : f = S_model)
    IN  IF hits = <<>> THEN <<>> ELSE Head(hits)

\* the relationship file found without lowercasing the key
RelationshipFileOf_case_sensitive(names) ==
    LET hits == SelectSeq(names, LAMBDA f : Contains(f, S_relationship))
    IN  IF hits = <<>> THEN <<>> ELSE Head(hits)

\* next((f for f in file_names if 'relationship' in f.lower()), None)
RelationshipFileOf(names) ==
    LET hits == SelectSeq(names, LAMBDA f : Contains(Lower(f), S_relationship))
    IN  IF hits = <<>> THEN <<>> ELSE Head(hits)

InitClassifier ==
    /\ pc = "classifier_start"
    /\ file_names \in DistinctSeqs(KeyPool, MaxKeys)
    /\ \E content \in {Raw(YMap(<<>>)), RawMalformed} :
           all_files = [k \in {file_names[i] : i \in 1..Len(file_names)} |-> content]
    /\ topics = <<>> /\ views = <<>> /\ model_file = <<>> /\ relationship_file = <<>>
    /\ view_data = YNone
    /\ IdleResolver /\ IdleExtractor /\ IdleWalk

\* if file_names: the four categories
CategorizeFiles ==
    /\ pc = "classifier_start"
    /\ file_names # <<>>
    /\ topics' = TopicsOf(file_names)
    /\ views' = ViewsOf(file_names)
    /\ model_file' = ModelFileOf(file_names)
    /\ relationship_file' = RelationshipFileOf(file_names)
    /\ pc' = "classified"
    /\ UNCHANGED <<table_name, view_data, paths, view_file, all_files, file_names,
                   source_table, fields, yaml_data, base_table, nodes, edges,
                   stack, all_fields, visit>>

\* else: "No files found in the model YAML"
NoFilesFound ==
    /\ pc = "classifier_start"
    /\ file_names = <<>>
    /\ pc' = "no_files"
    /\ UNCHANGED <<table_name, view_data, paths, view_file, all_files, file_names,
                   topics, views, model_file, relationship_file, source_table,
                   fields, yaml_data, base_table, nodes, edges, stack, all_fields,
                   visit>>

NextClassifier == CategorizeFiles \/ NoFilesFound

SpecClassifier == InitClassifier /\ [][NextClassifier]_vars

Elems(q) == {q[i] : i \in 1..Len(q)}

\* C9: topics are exactly the keys ending in ".topic", views exactly the keys
\* ending in ".view" (".query.view" keys included), the model file is the key
\* equal to "model" or none, and the relationship file is the first key, in
\* bundle key order, whose lowercased form contains "relationship", or none;
\* whatever the files hold.
C9_Classifier ==
    pc = "classified" =>
        LET n == Len(file_names)
            isRel(k) == Contains(Lower(k), S_relationship)
        IN  /\ Elems(topics) = {k \in Elems(file_names) : EndsWith(k, S_topic)}
            /\ Len(topics) = Cardinality(Elems(topics))
            /\ Elems(views) = {k \in Elems(file_names) : EndsWith(k, S_view)}
            /\ Len(views) = Cardinality(Elems(views))
            /\ \A k \in Elems(file_names) : EndsWith(k, S_query_view) => k \in Elems(views)
            /\ S_orders \o S_topic \o <<"s">> \notin Elems(topics)
            /\ <<"p", "r", "e", "v", "i", "e", "w">> \notin Elems(views)
            /\ model_file = IF S_model \in Elems(file_names) THEN S_model ELSE <<>>
            /\ (\A i \in 1..n : ~isRel(file_names[i])) => relationship_file = <<>>
            /\ \A i \in 1..n :
                   (isRel(file_names[i]) /\ \A j \in 1..(i - 1) : ~isRel(file_names[j]))
                       => relationship_file = file_names[i]
            /\ (\E i \in 1..n : file_names[i] =
                    <<"R", "E", "L", "A", "T", "I", "O", "N", "S", "H", "I", "P">> \o S_topic
                    /\ \A j \in 1..(i - 1) : file_names[j] # S_relationship \o <<"s">>)
                 => relationship_file =
                    <<"R", "E", "L", "A", "T", "I", "O", "N", "S", "H", "I", "P">> \o S_topic

\* C9 witness: two keys match "relationship"; the first one, an upper-case
\* topic key, is selected and is a topic as well; a .query.view key is a view.
C9_Witness ==
    /\ pc = "classified"
    /\ file_names = << <<"R", "E", "L", "A", "T", "I", "O", "N", "S", "H", "I", "P">> \o S_topic,
                       S_relationship \o <<"s">>,
                       S_orders \o S_query_view >>
    /\ relationship_file = file_names[1]
    /\ topics = <<file_names[1]>>
    /\ views = <<file_names[3]>>
    /\ all_files[file_names[1]] = RawMalformed

-----------------------------------------------------------------------------
(* Field Extractor *)

MaxFieldsPerSection == 1

S_amount == <<"a", "m", "o", "u", "n", "t">>
S_sum == <<"s", "u", "m">>
S_count == <<"c", "o", "u", "n", "t">>
S_lparen == <<"(">>
S_rparen == <<")">>
S_Dimension == <<"D", "i", "m", "e", "n", "s", "i", "o", "n">>
S_Measure == <<"M", "e", "a", "s", "u", "r", "e">>

\* the record appended for one dimension (lines 87-94)
DimensionRecord(field_name, field_def, src) ==
    [ name |-> field_name,
      type |-> S_Dimension,
      sql |-> GetOr(field_def, K_sql),
      description |-> GetOr(field_def, K_description),
      source_table |-> src,
      full_definition |-> Raw(YMap(<<Item(field_name, field_def)>>)) ]

\* the SQL display with the aggregate type always wrapped around the expression
MeasureSql_always_wrapped(field_def) ==
    LET sql == GetOr(field_def, K_sql)
        agg_type == GetOr(field_def, K_aggregate_type)
    IN  IF Truthy(agg_type)
        THEN YStr(Format(agg_type) \o S_lparen \o Format(sql) \o S_rparen)
        ELSE sql

\* the SQL display of a measure (lines 99-107)
MeasureSql(field_def) ==
    LET sql == GetOr(field_def, K_sql)
        agg_type == GetOr(field_def, K_aggregate_type)
    IN  IF Truthy(agg_type)
        THEN IF Truthy(sql)
             THEN YStr(Format(agg_type) \o S_lparen \o Format(sql) \o S_rparen)
             ELSE agg_type
        ELSE sql

\* the record appended for one measure (lines 109-116)
MeasureRecord(field_name, field_def, src) ==
    [ name |-> field_name,
      type |-> S_Measure,
      sql |-> MeasureSql(field_def),
      description |-> GetOr(field_def, K_description),
      source_table |-> src,
      full_definition |-> Raw(YMap(<<Item(field_name, field_def)>>)) ]

\* The index of the first item whose value has no .get (is not a dict), or
\* Len + 1: the loop over a section raises AttributeError there.
FirstBad(items) ==
    IF \E i \in 1..Len(items) : ~IsDict(items[i].val)
    THEN CHOOSE i \in 1..Len(items) :
             /\ ~IsDict(items[i].val)
             /\ \A j \in 1..(i - 1) : IsDict(items[j].val)
    ELSE Len(items) + 1

\* get_fields_from_view: [raised, fields]; when raised, fields is the local list
\* as it stands when the exception leaves the function (it is never returned).
get_fields_from_view(vd, src) ==
    LET hasDims == HasKey(vd, K_dimensions)
        dims == IF hasDims THEN Lookup(vd, K_dimensions) ELSE YMap(<<>>)
        dimStop == IF IsDict(dims) THEN FirstBad(dims.entries) ELSE 1
        dimRaised == ~IsDict(dims) \/ dimStop <= Len(dims.entries)
        dimRecs == [i \in 1..(dimStop - 1) |->
                      DimensionRecord(dims.entries[i].key, dims.entries[i].val, src)]
        hasMeas == ~dimRaised /\ HasKey(vd, K_measures)
        meas == IF hasMeas THEN Lookup(vd, K_measures) ELSE YMap(<<>>)
        measStop == IF IsDict(meas) THEN FirstBad(meas.entries) ELSE 1
        measRaised == ~IsDict(meas) \/ measStop <= Len(meas.entries)
        measRecs == [i \in 1..(measStop - 1) |->
                       MeasureRecord(meas.entries[i].key, meas.entries[i].val, src)]
    IN  [raised |-> dimRaised \/ measRaised, fields |-> dimRecs \o measRecs]

\* Field definitions: every combination of sql (absent, empty, an expression)
\* and aggregate_type (absent, empty, a name), two with a description, the
\* count measure without sql, and one that is a plain string, not a mapping.
SqlItems == { <<>>, <<Item(K_sql, YStr(S_empty))>>, <<Item(K_sql, YStr(S_amount))>> }
AggItems == { <<>>, <<Item(K_aggregate_type, YStr(S_empty))>>,
              <<Item(K_aggregate_type, YStr(S_sum))>> }
DescItem == <<Item(K_description, YStr(<<"n", "o", "t", "e">>))>>
FieldDefs ==
    { YMap(q \o a) : q \in SqlItems, a \in AggItems }
    \cup { YMap(DescItem), YMap(<<Item(K_sql, YStr(S_amount)),
                                  Item(K_aggregate_type, YStr(S_sum))>> \o DescItem),
           YMap(<<Item(K_aggregate_type, YStr(S_count))>>),
           YStr(S_amount) }

FieldNames == << <<"i", "d">>, <<"t", "o", "t", "a", "l">>, <<"c", "n", "t">> >>

\* The values of a dimensions / measures key: a list, null, or a mapping of at
\* most n fields.
Sections(n) ==
    { YSeq, YNone }
    \cup { YMap([i \in 1..k |-> Item(FieldNames[i], defs[i])]) :
               k \in 0..n, defs \in [1..n -> FieldDefs] }

\* A view mapping from optional head items, dimensions and measures.
ViewOf(head, dims, meas) == YMap(head \o dims \o meas)

SectionItems(key, n) == { <<>> } \cup { <<Item(key, v)>> : v \in Sections(n) }

ExtractorViews ==
    { ViewOf(<<>>, d, m) : d \in SectionItems(K_dimensions, MaxFieldsPerSection),
                           m \in SectionItems(K_measures, MaxFieldsPerSection) }

InitExtractor ==
    /\ pc = "extract_call"
    /\ view_data \in ExtractorViews
    /\ source_table \in Tables
    /\ fields = <<>>
    /\ all_files = <<>>
    /\ IdleResolver /\ IdleClassifier /\ IdleWalk

\* fields = get_fields_from_view(view_data, table_name) (line 302)
ExtractFields ==
    /\ pc = "extract_call"
    /\ ~get_fields_from_view(view_data, source_table).raised
    /\ fields' = get_fields_from_view(view_data, source_table).fields
    /\ pc' = "extract_returned"
    /\ UNCHANGED <<table_name, view_data, paths, view_file, all_files, file_names,
                   topics, views, model_file, relationship_file, source_table,
                   yaml_data, base_table, nodes, edges, stack, all_fields, visit>>

\* the call raises: except Exception (line 347), nothing is returned
ExtractRaises ==
    /\ pc = "extract_call"
    /\ get_fields_from_view(view_data, source_table).raised
    /\ pc' = "extract_raised"
    /\ UNCHANGED <<table_name, view_data, paths, view_file, all_files, file_names,
                   topics, views, model_file, relationship_file, source_table,
                   fields, yaml_data, base_table, nodes, edges, stack, all_fields,
                   visit>>

NextExtractor == ExtractFields \/ ExtractRaises

SpecExtractor == InitExtractor /\ [][NextExtractor]_vars

\* The items of a section of a view mapping, none when the key is absent.
SectionEntries(vd, key) == IF HasKey(vd, key) THEN Lookup(vd, key).entries ELSE <<>>

\* C6: every measure record's sql is "{aggregate_type}({sql})" when both an
\* aggregate type and a SQL expression are declared, the bare aggregate type
\* when only the aggregate type is declared, and the bare SQL expression
\* (possibly empty) when no aggregate type is declared; every dimension
\* record's sql is the declared expression or the empty string.  A key holding
\* the empty string declares nothing.  {sql: amount, aggregate_type: sum}
\* gives sum(amount) and {aggregate_type: count} gives count.
C6_MeasureSql ==
    pc = "extract_returned" =>
        LET dims == SectionEntries(view_data, K_dimensions)
            meas == SectionEntries(view_data, K_measures)
            declared(fd, k) == HasKey(fd, k) /\ Lookup(fd, k).str # <<>>
            given(fd, k) == IF HasKey(fd, k) THEN Lookup(fd, k).str ELSE <<>>
        IN  /\ Len(fields) = Len(dims) + Len(meas)
            /\ \A i \in 1..Len(dims) :
                   /\ fields[i].type = S_Dimension
                   /\ fields[i].sql = YStr(given(dims[i].val, K_sql))
            /\ \A i \in 1..Len(meas) :
                   LET fd == meas[i].val
                       rec == fields[Len(dims) + i]
                   IN  /\ rec.type = S_Measure
                       /\ rec.sql =
                            IF declared(fd, K_aggregate_type) /\ declared(fd, K_sql)
                            THEN YStr(given(fd, K_aggregate_type) \o <<"(">>
                                      \o given(fd, K_sql) \o <<")">>)
                            ELSE IF declared(fd, K_aggregate_type)
                            THEN YStr(given(fd, K_aggregate_type))
                            ELSE YStr(given(fd, K_sql))
                       /\ fd = YMap(<<Item(K_sql, YStr(S_amount)),
                                      Item(K_aggregate_type, YStr(S_sum))>>)
                            => rec.sql.str = <<"s", "u", "m", "(", "a", "m", "o", "u",
                                               "n", "t", ")">>
                       /\ fd = YMap(<<Item(K_aggregate_type, YStr(S_count))>>)
                            => rec.sql.str = <<"c", "o", "u", "n", "t">>

\* C6 witness: a view with one dimension and the measure {aggregate_type: count}
\* has been extracted: the measure's sql is count.
C6_Witness ==
    /\ pc = "extract_returned"
    /\ Len(SectionEntries(view_data, K_dimensions)) = 1
    /\ Len(fields) = 2
    /\ SectionEntries(view_data, K_measures)[1].val
           = YMap(<<Item(K_aggregate_type, YStr(S_count))>>)
    /\ fields[2].sql = YStr(<<"c", "o", "u", "n", "t">>)

-----------------------------------------------------------------------------
(* Topics: the nested joins mappings *)

MaxNodes == 5

JoinNames == {S_customers, S_addresses}

\* The values a join entry may hold with no nested joins: null or an empty mapping.
LeafValues == {YNone, YMap(<<>>)}

\* The joins mappings with exactly n entries in all (nested ones included),
\* sibling keys distinct, as the items of the top-level mapping.
RECURSIVE ForestsOfSize(_)
ForestsOfSize(n) ==
    IF n = 0 THEN { <<>> }
    ELSE LET smaller == [k \in 0..(n - 1) |-> ForestsOfSize(k)]
             values == [k \in 0..(n - 1) |->
                          IF k = 0 THEN LeafValues ELSE { YMap(c) : c \in smaller[k] }]
             others(nm, k) == { r \in smaller[k] : \A i \in 1..Len(r) : r[i].key # nm }
         IN  UNION { { <<Item(e[1], v)>> \o rest :
                         v \in values[e[2]], rest \in others(e[1], n - 1 - e[2]) }
                     : e \in JoinNames \X (0..(n - 1)) }

\* The keys of a mapping are distinct, at every level.
RECURSIVE WellKeyed(_)
WellKeyed(items) ==
    /\ \A i, j \in 1..Len(items) : i # j => items[i].key # items[j].key
    /\ \A i \in 1..Len(items) : WellKeyed(items[i].val.entries)

\* The values of a topic's joins key: null, a string, a list, or a mapping
\* of at most n entries in all.
JoinsValues(n) ==
    { YNone, YStr(S_customers), YSeq }
    \cup { YMap(f) : f \in { g \in UNION { ForestsOfSize(k) : k \in 0..n } : WellKeyed(g) } }

\* A topic mapping: a base_view-free mapping with or without a joins key.
Topics(n) ==
    { YMap(<<>>) } \cup { YMap(<<Item(K_joins, j)>>) : j \in JoinsValues(n) }

-----------------------------------------------------------------------------
(* Join Graph Builder *)

\* colors = ['#6ba2f7', '#94bdf9', '#bcd8fb', '#e4f1fd'] (line 50)
colors == <<"#6ba2f7", "#94bdf9", "#bcd8fb", "#e4f1fd">>

Min(a, b) == IF a <= b THEN a ELSE b

\* the joined table's node with the fill colour saturating one step early
JoinNode_three_shades(table, depth) ==
    [ name |-> table,
      label |-> table,
      fillcolor |-> colors[Min(depth, Len(colors) - 2) + 1],
      fontcolor |-> IF depth > 0 THEN "black" ELSE "white" ]

\* dot.node(table, table, fillcolor=colors[min(depth, len(colors)-1)],
\*          fontcolor='black' if depth > 0 else 'white') (lines 50-59)
JoinNode(table, depth) ==
    [ name |-> table,
      label |-> table,
      fillcolor |-> colors[Min(depth, Len(colors) - 1) + 1],
      fontcolor |-> IF depth > 0 THEN "black" ELSE "white" ]

\* dot.node(base_table, base_table, fillcolor='#4287f5', fontcolor='white')
BaseNode(table) ==
    [ name |-> table, label |-> table, fillcolor |-> "#4287f5", fontcolor |-> "white" ]

\* the edge drawn from the base table instead of the parent
JoinEdge_from_base(parent_table, table) == [tail |-> base_table, head |-> table]

\* dot.edge(parent_table, table, ...) (lines 62-68)
JoinEdge(parent_table, table) == [tail |-> parent_table, head |-> table]

\* A YAML alias to the anchor on the topic's joins mapping (joins: &j ...
\* customers: *j): safe_load puts the very same dict object in its place, so
\* the decoded value holds itself.
YAlias == [kind |-> "alias", str |-> <<>>, entries |-> <<>>]

\* The object a decoded value is: the joins mapping for the alias.
Deref(v) == IF v.kind = "alias" THEN Lookup(yaml_data, K_joins) ELSE v

\* The nested calls of add_joins / process_joins the interpreter allows before
\* it raises RecursionError (sys.getrecursionlimit(), scaled down).
RecursionLimit == 8

\* A call add_joins(parent_table, joins_data, depth) or process_joins(joins_data):
\* a value that is not a dict returns at once, a dict opens a frame holding the
\* items the for loop has still to take.
Call(stk, parent_table, joins_data, depth) ==
    IF IsDict(Deref(joins_data))
    THEN Append(stk, [parent_table |-> parent_table,
                      items |-> Deref(joins_data).entries,
                      depth |-> depth])
    ELSE stk

\* The recursive call for the item the loop has taken would exceed the
\* interpreter's recursion limit.
RecursionOverflow ==
    /\ Len(stack) >= RecursionLimit
    /\ IsDict(Deref(Head(stack[Len(stack)].items).val))

\* The frame on top with the item the loop has just taken removed.
Advance(stk) ==
    [stk EXCEPT ![Len(stk)].items = Tail(stk[Len(stk)].items)]

InitGraph ==
    /\ pc = "graph_call"
    /\ yaml_data \in Topics(MaxNodes)
    /\ base_table = S_orders
    /\ nodes = <<>> /\ edges = <<>> /\ stack = <<>>
    /\ all_fields = <<>> /\ visit = NoVisit
    /\ all_files = <<>> /\ view_data = YNone
    /\ IdleResolver /\ IdleClassifier /\ IdleExtractor

\* create_join_graph up to the first call of add_joins (lines 36-42, 75-76)
CreateJoinGraph ==
    /\ pc = "graph_call"
    /\ nodes' = <<BaseNode(base_table)>>
    /\ edges' = <<>>
    /\ stack' = IF HasKey(yaml_data, K_joins)
                THEN Call(<<>>, base_table, Lookup(yaml_data, K_joins), 0)
                ELSE <<>>
    /\ pc' = "graph_walk"
    /\ UNCHANGED <<table_name, view_data, paths, view_file, all_files, file_names,
                   topics, views, model_file, relationship_file, source_table,
                   fields, yaml_data, base_table, all_fields, visit>>

\* one iteration of the for loop of add_joins (lines 48-72)
AddJoin ==
    /\ pc = "graph_walk"
    /\ stack # <<>>
    /\ stack[Len(stack)].items # <<>>
    /\ ~RecursionOverflow
    /\ LET frame == stack[Len(stack)]
           table == Head(frame.items).key
           join_info == Head(frame.items).val
       IN  /\ nodes' = Append(nodes, JoinNode(table, frame.depth))
           /\ edges' = Append(edges, JoinEdge(frame.parent_table, table))
           /\ stack' = Call(Advance(stack), table, join_info, frame.depth + 1)
    /\ UNCHANGED <<pc, table_name, view_data, paths, view_file, all_files,
                   file_names, topics, views, model_file, relationship_file,
                   source_table, fields, yaml_data, base_table, all_fields, visit>>

\* the iteration whose recursive call (line 72) raises RecursionError: the
\* node and the edge are drawn, then the exception unwinds every frame and
\* leaves create_join_graph, which has no handler
AddJoinsRaise ==
    /\ pc = "graph_walk"
    /\ stack # <<>>
    /\ stack[Len(stack)].items # <<>>
    /\ RecursionOverflow
    /\ LET frame == stack[Len(stack)]
           table == Head(frame.items).key
       IN  /\ nodes' = Append(nodes, JoinNode(table, frame.depth))
           /\ edges' = Append(edges, JoinEdge(frame.parent_table, table))
    /\ stack' = <<>>
    /\ pc' = "graph_recursion_error"
    /\ UNCHANGED <<table_name, view_data, paths, view_file, all_files,
                   file_names, topics, views, model_file, relationship_file,
                   source_table, fields, yaml_data, base_table, all_fields, visit>>

\* the for loop of add_joins is exhausted: the call returns
AddJoinsReturn ==
    /\ pc = "graph_walk"
    /\ stack # <<>>
    /\ stack[Len(stack)].items = <<>>
    /\ stack' = SubSeq(stack, 1, Len(stack) - 1)
    /\ UNCHANGED <<pc, table_name, view_data, paths, view_file, all_files,
                   file_names, topics, views, model_file, relationship_file,
                   source_table, fields, yaml_data, base_table, nodes, edges,
                   all_fields, visit>>

\* return dot (line 78)
ReturnGraph ==
    /\ pc = "graph_walk"
    /\ stack = <<>>
    /\ pc' = "graph_done"
    /\ UNCHANGED <<table_name, view_data, paths, view_file, all_files, file_names,
                   topics, views, model_file, relationship_file, source_table,
                   fields, yaml_data, base_table, nodes, edges, stack, all_fields,
                   visit>>

\* The topics of this specification are finite trees of fewer levels than the
\* recursion limit: AddJoinsRaise is never enabled.
NextGraph == CreateJoinGraph \/ AddJoin \/ AddJoinsReturn \/ ReturnGraph

SpecGraph == InitGraph /\ [][NextGraph]_vars

\* The entries of nested joins mappings in pre-order: each with its key, the
\* key of the entry (or the base table) holding it, and its nesting level,
\* 1 for the entries of the topic's own joins mapping.
RECURSIVE PreOrder(_, _, _)
PreOrder(parent, items, level) ==
    IF items = <<>> THEN <<>>
    ELSE LET it == Head(items)
         IN  <<[name |-> it.key, parent |-> parent, level |-> level]>>
             \o (IF it.val.kind = "map"
                 THEN PreOrder(it.key, it.val.entries, level + 1) ELSE <<>>)
             \o PreOrder(parent, Tail(items), level)

\* The pre-order entries of a topic for a base table: none when the joins
\* key is absent or holds something that is not a mapping.
JoinEntries(topic, base) ==
    IF HasKey(topic, K_joins) /\ Lookup(topic, K_joins).kind = "map"
    THEN PreOrder(base, Lookup(topic, K_joins).entries, 1)
    ELSE <<>>

\* C4: the node list is the base table followed by one node per entry of the
\* nested joins mappings in pre-order, the edge list holds one edge (parent,
\* child) per entry in the same order, a value that is not a mapping ends its
\* branch, and an absent or non-mapping joins gives one node and no edge;
\* {joins: {customers: {addresses: {}}}} with base orders gives the nodes
\* orders, customers, addresses and the edges (orders, customers),
\* (customers, addresses).
C4_GraphOutput ==
    pc = "graph_done" =>
        LET pre == JoinEntries(yaml_data, base_table)
        IN  /\ [i \in 1..Len(nodes) |-> nodes[i].name]
                 = <<base_table>> \o [i \in 1..Len(pre) |-> pre[i].name]
            /\ [i \in 1..Len(edges) |-> <<edges[i].tail, edges[i].head>>]
                 = [i \in 1..Len(pre) |-> <<pre[i].parent, pre[i].name>>]
            /\ (~HasKey(yaml_data, K_joins) \/ ~IsDict(GetOr(yaml_data, K_joins)))
                 => (Len(nodes) = 1 /\ nodes[1].name = base_table /\ edges = <<>>)
            /\ yaml_data = YMap(<<Item(K_joins,
                               YMap(<<Item(S_customers,
                                           YMap(<<Item(S_addresses, YMap(<<>>))>>))>>))>>)
                 => /\ [i \in 1..Len(nodes) |-> nodes[i].name]
                         = <<S_orders, S_customers, S_addresses>>
                    /\ edges = << [tail |-> S_orders, head |-> S_customers],
                                  [tail |-> S_customers, head |-> S_addresses] >>

\* C4 witness: a finished graph of a topic whose first join has two nested
\* joins, the first of them null-valued, and a later sibling.
C4_Witness ==
    /\ pc = "graph_done"
    /\ Len(nodes) = 5
    /\ edges = << [tail |-> S_orders, head |-> S_customers],
                  [tail |-> S_customers, head |-> S_addresses],
                  [tail |-> S_customers, head |-> S_customers],
                  [tail |-> S_orders, head |-> S_addresses] >>
    /\ Lookup(Lookup(yaml_data, K_joins), S_customers).entries[1].val = YNone

\* The treatment of a node: its fill and font colours.
Style(n) == <<n.fillcolor, n.fontcolor>>

\* The depth of the join nodes drawn: the base table is node 1 at depth 0, and
\* node i + 1 is the i-th entry in pre-order, at its nesting level.
DepthOf(i) == JoinEntries(yaml_data, base_table)[i].level

\* C5 as stated: the treatment is distinct for depths 1, 2 and 3, and every
\* node deeper than 3 receives exactly the depth-3 treatment.
C5_SaturatesAtThree ==
    pc = "graph_done" =>
        \A i, j \in 1..(Len(nodes) - 1) :
            /\ (DepthOf(i) <= 3 /\ DepthOf(j) <= 3 /\ DepthOf(i) # DepthOf(j))
                 => Style(nodes[i + 1]) # Style(nodes[j + 1])
            /\ (DepthOf(i) > 3 /\ DepthOf(j) = 3)
                 => Style(nodes[i + 1]) = Style(nodes[j + 1])

\* C5 amended: the base table is at depth 0 and every join entry at its
\* parent's depth + 1 (the depth argument of add_joins is that depth - 1); the
\* treatment is distinct for depths 1, 2, 3 and 4, and every node deeper than
\* 4 receives exactly the depth-4 treatment.
C5_SaturatesAtFour ==
    /\ \A k \in 1..Len(stack) : pc = "graph_walk" => stack[k].depth = k - 1
    /\ pc = "graph_done" =>
        /\ Len(nodes) = Len(JoinEntries(yaml_data, base_table)) + 1
        /\ \A i \in 1..(Len(nodes) - 1) :
               /\ DepthOf(i) = 1 => Style(nodes[i + 1]) = <<"#6ba2f7", "white">>
               /\ DepthOf(i) = 2 => Style(nodes[i + 1]) = <<"#94bdf9", "black">>
               /\ DepthOf(i) = 3 => Style(nodes[i + 1]) = <<"#bcd8fb", "black">>
               /\ DepthOf(i) >= 4 => Style(nodes[i + 1]) = <<"#e4f1fd", "black">>
               /\ Style(nodes[i + 1]) # Style(nodes[1])
        /\ \A i, j \in 1..(Len(nodes) - 1) :
               /\ (DepthOf(i) <= 4 /\ DepthOf(j) <= 4 /\ DepthOf(i) # DepthOf(j))
                    => Style(nodes[i + 1]) # Style(nodes[j + 1])
               /\ (DepthOf(i) > 4 /\ DepthOf(j) = 4)
                    => Style(nodes[i + 1]) = Style(nodes[j + 1])

\* C5 witness: a finished graph with a node at depth 5 drawn like the node at
\* depth 4 above it.
C5_Witness ==
    /\ pc = "graph_done"
    /\ Len(nodes) = 6
    /\ DepthOf(4) = 4 /\ DepthOf(5) = 5
    /\ Style(nodes[6]) = Style(nodes[5])
    /\ Style(nodes[5]) # Style(nodes[4])

-----------------------------------------------------------------------------
(* Field Collector *)

MaxJoins == 3

\* basic_paths (lines 146-147, 169-170)
basic_paths(table) ==
    << table \o S_view,
       S_PUBLIC \o S_slash \o table \o S_view,
       table \o S_query_view,
       S_PUBLIC \o S_slash \o table \o S_query_view >>

\* Resolving, loading and extracting one table where the list built by a
\* failing extraction is added to the result all the same.
ResolveAndExtract_keeps_partial(table, files) ==
    LET pass_one == FirstIn(basic_paths(table), DOMAIN files)
    IN  IF pass_one = <<>>
        THEN [table |-> table, pass_one |-> <<>>, pass_two |-> <<>>,
              outcome |-> "miss", fields |-> <<>>]
        ELSE IF ~files[pass_one].ok
        THEN [table |-> table, pass_one |-> pass_one, pass_two |-> pass_one,
              outcome |-> "caught", fields |-> <<>>]
        ELSE LET vd == files[pass_one].value
                 got == get_fields_from_view(vd, table)
             IN  IF ~IsDict(vd)
                 THEN [table |-> table, pass_one |-> pass_one, pass_two |-> pass_one,
                       outcome |-> "not_dict", fields |-> <<>>]
                 ELSE [table |-> table, pass_one |-> pass_one,
                       pass_two |-> FirstIn(get_view_file_paths(table, vd), DOMAIN files),
                       outcome |-> IF got.raised THEN "caught" ELSE "ok",
                       fields |-> got.fields]

\* Resolving, loading and extracting one table (lines 145-161 for the base
\* table, 168-184 for a joined one): the locals when the block is left.
\* pass_one is the file probed and loaded, pass_two the final value of
\* base_view_file / table_view_file, fields what is added to all_fields.
ResolveAndExtract(table, files) ==
    LET pass_one == FirstIn(basic_paths(table), DOMAIN files)
    IN  IF pass_one = <<>>
        THEN [table |-> table, pass_one |-> <<>>, pass_two |-> <<>>,
              outcome |-> "miss", fields |-> <<>>]
        ELSE IF ~files[pass_one].ok
        THEN [table |-> table, pass_one |-> pass_one, pass_two |-> pass_one,
              outcome |-> "caught", fields |-> <<>>]
        ELSE LET vd == files[pass_one].value
                 got == get_fields_from_view(vd, table)
             IN  IF ~IsDict(vd)
                 THEN [table |-> table, pass_one |-> pass_one, pass_two |-> pass_one,
                       outcome |-> "not_dict", fields |-> <<>>]
                 ELSE [table |-> table, pass_one |-> pass_one,
                       pass_two |-> FirstIn(get_view_file_paths(table, vd), DOMAIN files),
                       outcome |-> IF got.raised THEN "caught" ELSE "ok",
                       fields |-> IF got.raised THEN <<>> ELSE got.fields]

\* the walk going on to the next sibling without the nested joins of a table
\* that had no view file
NestedCall_skipped_on_miss(stk, v, join_info) ==
    IF v.outcome = "miss" THEN Advance(stk)
    ELSE Call(Advance(stk), <<>>, join_info, 0)

\* the nested joins of a table walked after the siblings that follow it
NestedCall_after_siblings(stk, v, join_info) ==
    LET adv == Advance(stk)
    IN  IF IsDict(join_info)
        THEN SubSeq(adv, 1, Len(adv) - 1)
             \o Call(<<>>, <<>>, join_info, 0)
             \o <<adv[Len(adv)]>>
        ELSE adv

\* if isinstance(join_info, dict): process_joins(join_info) (lines 186-188);
\* process_joins takes no parent and no depth.
NestedCall(stk, v, join_info) == Call(Advance(stk), <<>>, join_info, 0)

\* The decoded views of the bundles.
View_plain == YMap(<<Item(K_dimensions, YMap(<<Item(<<"i", "d">>, YMap(<<>>))>>))>>)
View_schema ==
    YMap(<<Item(K_schema, YStr(S_SALES)),
           Item(K_measures,
                YMap(<<Item(<<"t", "o", "t", "a", "l">>,
                            YMap(<<Item(K_sql, YStr(S_amount)),
                                   Item(K_aggregate_type, YStr(S_sum))>>))>>))>>)
View_query ==
    YMap(<<Item(K_query, YStr(<<"q">>)),
           Item(K_measures,
                YMap(<<Item(<<"c", "n", "t">>,
                            YMap(<<Item(K_aggregate_type, YStr(S_count))>>))>>))>>)
View_bad_measures ==
    YMap(<<Item(K_dimensions, YMap(<<Item(<<"i", "d">>, YMap(<<>>))>>)),
           Item(K_measures, YSeq)>>)
View_bad_field ==
    YMap(<<Item(K_dimensions, YMap(<<Item(<<"i", "d">>, YMap(<<>>)),
                                     Item(<<"t", "o", "t", "a", "l">>, YStr(S_amount))>>))>>)

Qualified(schema, t, suffix) == schema \o S_slash \o t \o suffix

\* The files a bundle may hold for a joined table t: none; the unqualified and
\* the PUBLIC key with different views; malformed text; a list under the
\* PUBLIC key; a view whose measures are a list; a view with a field that is
\* a string.
FileGroups(t) ==
    { <<>>,
      (t \o S_view) :> Raw(View_plain) @@ Qualified(S_PUBLIC, t, S_view) :> Raw(View_query),
      (t \o S_view) :> RawMalformed,
      Qualified(S_PUBLIC, t, S_view) :> Raw(YSeq),
      (t \o S_view) :> Raw(View_bad_measures),
      (t \o S_view) :> Raw(View_bad_field) }

\* The files a bundle may hold for the base table t: none; a view naming a
\* schema beside the key under that schema; a view whose measures are a list.
BaseFileGroups(t) ==
    { <<>>,
      (t \o S_view) :> Raw(View_schema) @@ Qualified(S_SALES, t, S_view) :> Raw(View_plain),
      (t \o S_view) :> Raw(View_bad_measures) }

Bundles ==
    { b @@ c @@ a : b \in BaseFileGroups(S_orders), c \in FileGroups(S_customers),
                    a \in FileGroups(S_addresses) }

InitCollector ==
    /\ pc = "collect_call"
    /\ yaml_data \in Topics(MaxJoins)
    /\ base_table = S_orders
    /\ all_files \in Bundles
    /\ all_fields = <<>> /\ visit = NoVisit /\ stack = <<>>
    /\ nodes = <<>> /\ edges = <<>>
    /\ view_data = YNone
    /\ IdleResolver /\ IdleClassifier /\ IdleExtractor

\* collect_all_fields up to the first call of process_joins (lines 143-161, 190-192)
CollectBase ==
    /\ pc = "collect_call"
    /\ LET v == ResolveAndExtract(base_table, all_files)
       IN  /\ visit' = v
           /\ all_fields' = v.fields
    /\ stack' = IF HasKey(yaml_data, K_joins)
                THEN Call(<<>>, <<>>, Lookup(yaml_data, K_joins), 0)
                ELSE <<>>
    /\ pc' = "collect_walk"
    /\ UNCHANGED <<table_name, view_data, paths, view_file, all_files, file_names,
                   topics, views, model_file, relationship_file, source_table,
                   fields, yaml_data, base_table, nodes, edges>>

\* one iteration of the for loop of process_joins (lines 167-188)
ProcessJoin ==
    /\ pc = "collect_walk"
    /\ stack # <<>>
    /\ stack[Len(stack)].items # <<>>
    /\ ~RecursionOverflow
    /\ LET frame == stack[Len(stack)]
           table == Head(frame.items).key
           join_info == Head(frame.items).val
           v == ResolveAndExtract(table, all_files)
       IN  /\ visit' = v
           /\ all_fields' = all_fields \o v.fields
           /\ stack' = NestedCall(stack, v, join_info)
    /\ UNCHANGED <<pc, table_name, view_data, paths, view_file, all_files,
                   file_names, topics, views, model_file, relationship_file,
                   source_table, fields, yaml_data, base_table, nodes, edges>>

\* the iteration whose recursive call (line 188) raises RecursionError: this
\* close to the limit the calls inside the try block may raise it too and
\* have it caught (the table then adds nothing), or may still succeed; the
\* exception of line 188 is outside the try block, unwinds every frame and
\* leaves collect_all_fields
ProcessJoinsRaise ==
    /\ pc = "collect_walk"
    /\ stack # <<>>
    /\ stack[Len(stack)].items # <<>>
    /\ RecursionOverflow
    /\ LET table == Head(stack[Len(stack)].items).key
           v == ResolveAndExtract(table, all_files)
       IN  \E w \in { v, [v EXCEPT !.outcome = "caught", !.fields = <<>>] } :
               /\ v.outcome = "miss" => w = v
               /\ visit' = w
               /\ all_fields' = all_fields \o w.fields
    /\ stack' = <<>>
    /\ pc' = "collect_recursion_error"
    /\ UNCHANGED <<table_name, view_data, paths, view_file, all_files,
                   file_names, topics, views, model_file, relationship_file,
                   source_table, fields, yaml_data, base_table, nodes, edges>>

\* the for loop of process_joins is exhausted: the call returns
ProcessJoinsReturn ==
    /\ pc = "collect_walk"
    /\ stack # <<>>
    /\ stack[Len(stack)].items = <<>>
    /\ stack' = SubSeq(stack, 1, Len(stack) - 1)
    /\ UNCHANGED <<pc, table_name, view_data, paths, view_file, all_files,
                   file_names, topics, views, model_file, relationship_file,
                   source_table, fields, yaml_data, base_table, nodes, edges,
                   all_fields, visit>>

\* return all_fields (line 194)
ReturnFields ==
    /\ pc = "collect_walk"
    /\ stack = <<>>
    /\ pc' = "collect_done"
    /\ UNCHANGED <<table_name, view_data, paths, view_file, all_files, file_names,
                   topics, views, model_file, relationship_file, source_table,
                   fields, yaml_data, base_table, nodes, edges, stack, all_fields,
                   visit>>

\* The topics of this specification are finite trees of fewer levels than the
\* recursion limit: ProcessJoinsRaise is never enabled.
NextCollector == CollectBase \/ ProcessJoin \/ ProcessJoinsReturn \/ ReturnFields

SpecCollector == InitCollector /\ [][NextCollector]_vars

\* The tables the collector has to visit, in order: the base table, then the
\* join entries in pre-order.
TablesToVisit ==
    <<base_table>>
    \o [i \in 1..Len(JoinEntries(yaml_data, base_table)) |->
          JoinEntries(yaml_data, base_table)[i].name]

\* The concatenation of a list of lists.
RECURSIVE Concat(_)
Concat(lists) ==
    IF lists = <<>> THEN <<>> ELSE Head(lists) \o Concat(Tail(lists))

IsPrefix(p, q) == Len(p) <= Len(q) /\ SubSeq(q, 1, Len(p)) = p

SourceTables(recs) == [i \in 1..Len(recs) |-> recs[i].source_table]

Visited == visit.outcome # "none"

\* C2 as stated: the first-pass probe of every table visited selects the first
\* key present in the resolver order PUBLIC/t.view, t.view,
\* PUBLIC/t.query.view, t.query.view; with both PUBLIC/t.view and t.view in
\* the bundle the file loaded in pass one is PUBLIC/t.view.
C2_PassOneResolverOrder ==
    Visited =>
        LET t == visit.table
            keys == DOMAIN all_files
        IN  /\ visit.pass_one =
                 FirstIn(<< S_PUBLIC \o S_slash \o t \o S_view, t \o S_view,
                            S_PUBLIC \o S_slash \o t \o S_query_view,
                            t \o S_query_view >>, keys)
            /\ (S_PUBLIC \o S_slash \o t \o S_view \in keys /\ t \o S_view \in keys)
                 => visit.pass_one = S_PUBLIC \o S_slash \o t \o S_view

\* C3 as stated: when the pass-one file decodes to a mapping and the
\* authoritative path recomputed from it resolves to a bundle key different
\* from the pass-one key, the records contributed for the table are the ones
\* extracted from the pass-two file.
C3_PassTwoFields ==
    ( /\ Visited
      /\ visit.pass_one # <<>>
      /\ all_files[visit.pass_one].ok
      /\ IsDict(all_files[visit.pass_one].value)
      /\ visit.pass_two # <<>>
      /\ visit.pass_two # visit.pass_one )
    => LET second == all_files[visit.pass_two]
       IN  (second.ok /\ IsDict(second.value)
              /\ ~get_fields_from_view(second.value, visit.table).raised)
           => visit.fields = get_fields_from_view(second.value, visit.table).fields

\* No candidate key of table t is a key of the bundle.
NoCandidate(t) ==
    \A k \in { t \o S_view, S_PUBLIC \o S_slash \o t \o S_view, t \o S_query_view,
               S_PUBLIC \o S_slash \o t \o S_query_view } : k \notin DOMAIN all_files

ContributionUnlessMissing(t) ==
    IF NoCandidate(t) THEN <<>> ELSE ResolveAndExtract(t, all_files).fields

\* C7: a table (the base table or one of the join tree) with no candidate key
\* in the bundle contributes zero records and raises nothing, and the walk
\* continues: the nested joins under it and its later siblings are still
\* visited and their resolvable views contribute their fields.
C7_MissIsSkipped ==
    /\ Visited => (NoCandidate(visit.table) <=> visit.outcome = "miss")
    /\ (Visited /\ NoCandidate(visit.table)) => visit.fields = <<>>
    /\ pc = "collect_done" =>
           all_fields = Concat([i \in 1..Len(TablesToVisit) |->
                                   ContributionUnlessMissing(TablesToVisit[i])])

\* C7 witness: the first join has no view file; its nested join and its later
\* sibling both contributed their fields.
C7_Witness ==
    /\ pc = "collect_done"
    /\ NoCandidate(S_customers) /\ NoCandidate(S_orders)
    /\ TablesToVisit = <<S_orders, S_customers, S_addresses, S_addresses>>
    /\ Len(JoinEntries(yaml_data, base_table)) = 3
    /\ JoinEntries(yaml_data, base_table)[2].parent = S_customers
    /\ JoinEntries(yaml_data, base_table)[3].parent = S_orders
    /\ all_fields # <<>>
    /\ SourceTables(all_fields) = <<S_addresses, S_addresses>>

\* A dimensions or measures value that is not a mapping, or holds a field
\* definition that is not a mapping.
BadSection(vd, key) ==
    /\ HasKey(vd, key)
    /\ \/ Lookup(vd, key).kind # "map"
       \/ \E i \in 1..Len(Lookup(vd, key).entries) :
              Lookup(vd, key).entries[i].val.kind # "map"

\* Decoding or extraction fails for table t: its probed file is malformed, is
\* not a mapping, or has a bad dimensions or measures section.
Fails(t) ==
    LET probe == FirstIn(basic_paths(t), DOMAIN all_files)
    IN  /\ probe # <<>>
        /\ \/ ~all_files[probe].ok
           \/ all_files[probe].value.kind # "map"
           \/ BadSection(all_files[probe].value, K_dimensions)
           \/ BadSection(all_files[probe].value, K_measures)

ContributionUnlessFailing(t) ==
    IF Fails(t) THEN <<>> ELSE ResolveAndExtract(t, all_files).fields

ExpectedUnlessFailing ==
    Concat([i \in 1..Len(TablesToVisit) |-> ContributionUnlessFailing(TablesToVisit[i])])

\* C8: when decoding or extraction fails for one table the collection does not
\* abort: that table contributes no record at all, never a partial set, the
\* records collected before it are kept unchanged, and the nested joins of the
\* failing table and all later tables are still processed.
C8_FailureIsolated ==
    /\ Visited => (Fails(visit.table) <=> visit.outcome \in {"caught", "not_dict"})
    /\ (Visited /\ visit.outcome \in {"caught", "not_dict"})
         => (visit.fields = <<>> /\ IsPrefix(all_fields, ExpectedUnlessFailing))
    /\ pc = "collect_done" =>
           all_fields = ExpectedUnlessFailing

\* C8 witness: the base table contributed, the first join failed after its
\* extraction had built one record, and its nested join and its later sibling
\* contributed all the same.
C8_Witness ==
    /\ pc = "collect_done"
    /\ Fails(S_customers)
    /\ S_customers \o S_view \in DOMAIN all_files
    /\ all_files[S_customers \o S_view] = Raw(View_bad_measures)
    /\ get_fields_from_view(View_bad_measures, S_customers).fields # <<>>
    /\ TablesToVisit = <<S_orders, S_customers, S_addresses, S_addresses>>
    /\ JoinEntries(yaml_data, base_table)[2].parent = S_customers
    /\ SourceTables(all_fields) = <<S_orders, S_addresses, S_addresses>>

-----------------------------------------------------------------------------
(* The two walks of one topic: Join Graph Builder, then Field Collector *)

View_mixed ==
    YMap(<<Item(K_measures,
                YMap(<<Item(<<"c", "n", "t">>,
                            YMap(<<Item(K_aggregate_type, YStr(S_count))>>))>>)),
           Item(K_dimensions,
                YMap(<<Item(<<"i", "d">>, YMap(<<>>)),
                       Item(<<"c", "i", "t", "y">>, YMap(<<Item(K_sql, YStr(S_amount))>>))>>))>>)

\* The files a bundle may hold for a joined table t when the two walks are
\* compared: none; a view declaring its measures before its two dimensions;
\* a one-dimension view under the PUBLIC key; malformed text; a view whose
\* measures are a list.
OrderFileGroups(t) ==
    { <<>>,
      (t \o S_view) :> Raw(View_mixed),
      Qualified(S_PUBLIC, t, S_view) :> Raw(View_plain),
      (t \o S_view) :> RawMalformed,
      (t \o S_view) :> Raw(View_bad_measures) }

OrderBaseFileGroups(t) ==
    { <<>>, (t \o S_view) :> Raw(View_mixed) }

OrderBundles ==
    { b @@ c @@ a : b \in OrderBaseFileGroups(S_orders),
                    c \in OrderFileGroups(S_customers),
                    a \in OrderFileGroups(S_addresses) }

InitTraversal ==
    /\ pc = "graph_call"
    /\ yaml_data \in Topics(MaxJoins)
    /\ base_table = S_orders
    /\ all_files \in OrderBundles
    /\ nodes = <<>> /\ edges = <<>> /\ stack = <<>>
    /\ all_fields = <<>> /\ visit = NoVisit
    /\ view_data = YNone
    /\ IdleResolver /\ IdleClassifier /\ IdleExtractor

\* display_file_content hands the topic and the base table it gave to
\* create_join_graph (line 226) to collect_all_fields (line 234)
CollectAfterGraph ==
    /\ pc = "graph_done"
    /\ pc' = "collect_call"
    /\ UNCHANGED <<table_name, view_data, paths, view_file, all_files, file_names,
                   topics, views, model_file, relationship_file, source_table,
                   fields, yaml_data, base_table, nodes, edges, stack, all_fields,
                   visit>>

NextTraversal ==
    \/ CreateJoinGraph \/ AddJoin \/ AddJoinsReturn \/ ReturnGraph
    \/ CollectAfterGraph
    \/ CollectBase \/ ProcessJoin \/ ProcessJoinsReturn \/ ReturnFields

SpecTraversal == InitTraversal /\ [][NextTraversal]_vars

\* The entries of one section of a view in declared order, as
\* (source_table, name, type) tags.
SectionTags(t, vd, key, type) ==
    IF HasKey(vd, key)
    THEN [i \in 1..Len(Lookup(vd, key).entries) |->
            [source_table |-> t, name |-> Lookup(vd, key).entries[i].key, type |-> type]]
    ELSE <<>>

\* The block a table owes to the field list: nothing when it has no file or
\* its file fails, else its dimensions and then its measures as declared.
DeclaredBlock(t) ==
    IF NoCandidate(t) \/ Fails(t) THEN <<>>
    ELSE LET vd == all_files[FirstIn(basic_paths(t), DOMAIN all_files)].value
         IN  SectionTags(t, vd, K_dimensions, S_Dimension)
             \o SectionTags(t, vd, K_measures, S_Measure)

Tags(recs) ==
    [i \in 1..Len(recs) |->
        [source_table |-> recs[i].source_table, name |-> recs[i].name, type |-> recs[i].type]]

\* C11: for the same topic and base table the collected field list is one
\* contiguous block per node of the join graph, in the graph's node order
\* (base table first), the nodes whose table contributed no record leaving no
\* block; within a block the dimensions come before the measures, each in the
\* view's declared order.
C11_TraversalOrder ==
    pc = "collect_done" =>
        Tags(all_fields)
            = Concat([i \in 1..Len(nodes) |-> DeclaredBlock(nodes[i].name)])

\* C11 witness: a finished collection over a graph of four nodes with a nested
\* join followed by a sibling, where one node's table contributed nothing and
\* another contributed two dimensions and then a measure from a view that
\* declares its measures first.
C11_Witness ==
    /\ pc = "collect_done"
    /\ Len(nodes) = 4
    /\ JoinEntries(yaml_data, base_table)[2].parent = S_customers
    /\ JoinEntries(yaml_data, base_table)[3].parent = S_orders
    /\ DeclaredBlock(S_orders) = <<>>
    /\ S_customers \o S_view \in DOMAIN all_files
    /\ all_files[S_customers \o S_view] = Raw(View_mixed)
    /\ Len(DeclaredBlock(S_addresses)) = 1
    /\ Len(all_fields) = 5
    /\ SourceTables(all_fields)
         = <<S_customers, S_customers, S_customers, S_addresses, S_addresses>>

-----------------------------------------------------------------------------
(* The walks on joins that hold themselves *)

MaxTreeJoins == 2

\* The joins mappings that hold themselves through an alias: alone, before a
\* sibling, after a sibling, and one level further down.
CyclicJoins ==
    { <<Item(S_customers, YAlias)>>,
      <<Item(S_customers, YAlias), Item(S_addresses, YNone)>>,
      <<Item(S_addresses, YMap(<<>>)), Item(S_customers, YAlias)>>,
      <<Item(S_customers, YMap(<<Item(S_addresses, YAlias)>>))>> }

CyclicTopics == { YMap(<<Item(K_joins, YMap(f))>>) : f \in CyclicJoins }

IsCyclic(topic) == topic \in CyclicTopics

DeepWalkBundles ==
    { c @@ a : c \in { <<>>, (S_customers \o S_view) :> Raw(View_mixed) },
               a \in { <<>>, (S_addresses \o S_view) :> Raw(View_bad_measures) } }

InitDeepWalk ==
    /\ pc \in {"graph_call", "collect_call"}
    /\ yaml_data \in CyclicTopics \cup Topics(MaxTreeJoins)
    /\ base_table = S_orders
    /\ all_files \in DeepWalkBundles
    /\ nodes = <<>> /\ edges = <<>> /\ stack = <<>>
    /\ all_fields = <<>> /\ visit = NoVisit
    /\ view_data = YNone
    /\ IdleResolver /\ IdleClassifier /\ IdleExtractor

NextDeepWalk ==
    \/ CreateJoinGraph \/ AddJoin \/ AddJoinsRaise \/ AddJoinsReturn \/ ReturnGraph
    \/ CollectBase \/ ProcessJoin \/ ProcessJoinsRaise \/ ProcessJoinsReturn
    \/ ReturnFields

SpecDeepWalk == InitDeepWalk /\ [][NextDeepWalk]_vars

\* C12 as stated: neither walk runs into the interpreter's recursion limit;
\* on joins that nest without end a walk is stopped by its own maximum-depth
\* guard and ends with the "join tree too deep / possible cycle" diagnosis,
\* and on a finite tree it ends normally.
C12_DepthGuard ==
    /\ pc \notin {"graph_recursion_error", "collect_recursion_error"}
    /\ (IsCyclic(yaml_data) /\ stack = <<>> /\ pc \notin {"graph_call", "collect_call"})
           => pc = "join_tree_too_deep"

====
